---- MODULE Spec2Model ----
(***************************************************************************)
(* BCRobot (src/src/robot.py): the per-robot decision engine of BOBCAT.    *)
(*                                                                         *)
(* The program state is the BCRobot object (record `robot`), its          *)
(* configuration (record `cfg`, read once in __init__), and the position   *)
(* of the main thread inside run() (`call`: the deployBeacon call the tick *)
(* is blocked in, if any).  Subscriber callbacks run on rospy's own        *)
(* threads, so they are separate actions that may fire between ticks and   *)
(* while the main thread is blocked in deployBeacon (wait_for_service,     *)
(* the service call, rospy.sleep).  `log` is the trace of a tick: the       *)
(* directives it publishes, the messages it logs, the outcome of the       *)
(* deployment mechanism and the point where mode arbitration begins.       *)
(*                                                                         *)
(* The file uses math, Bool and Empty without importing them; they are    *)
(* taken to be the math module and the std_msgs types, as the node cannot  *)
(* start otherwise.                                                        *)
(*                                                                         *)
(* Geometry: positions are <<x, y>> on a half-metre grid in one horizontal *)
(* plane, so that the 0.5 m offsets of the source stay integral; distances *)
(* are compared squared.                                                   *)
(***************************************************************************)
EXTENDS Integers, Sequences, FiniteSets, TLC

VARIABLES
    cfg,        \* rospy parameters and parent-class settings read at start
    robot,      \* the fields of the BCRobot object (self.*)
    call,       \* the deployBeacon call the tick is suspended in, or NoCall
    log,        \* directives issued by the tick in progress or just returned
    lm,         \* position of the LaunchMonitor callback thread
    service,    \* whether the simulator's set_pose service is available
    tickStart,  \* the handler-written fields as they were when the tick began
    probe       \* arguments and result of a function applied on its own

vars == <<cfg, robot, call, log, lm, service, tickStart, probe>>

----------------------------------------------------------------------------
\* Bounds of the model.

\* Pool of beacons known to the robot (self.beacons).
MaxBeacons == 2
\* self.hislen = self.rate * 10: length of the odometry history.
hislen == 3
\* Number of artifacts the agent may detect.
MaxArtifacts == 1
\* Number of reverse-drop sites recorded in bl_beacons.
MaxBl == 2
\* Cap on the stuck counter.
MaxStuck == 4

\* Program constants (defaults of the rospy parameters), in metres.
maxAnchorDist == 100
maxDist == 30
junctionDist == 10
minAnchorDist == 10
\* bobcat/stopCheck as configured for the model (the default is 30 ticks).
stopCheck == 2

\* self.regainBase is never assigned in __init__ (which sets baseRegain).
Unset == 0 - 1
\* `deploy = False`: no beacon selected.
NoBeacon == 0

NoCall == [stage |-> "none"]

Beacons == 1..MaxBeacons

----------------------------------------------------------------------------
\* util.helpers, on the half-metre grid.

\* A length in metres as grid units.
Grid(metres) == 2 * metres

\* getDist(a, b) squared.
getDist2(a, b) == (a[1] - b[1]) * (a[1] - b[1]) + (a[2] - b[2]) * (a[2] - b[2])

Sq(x) == x * x

\* getDist(a, b) < metres, getDist(a, b) > metres
distLess(a, b, metres) == getDist2(a, b) < Sq(Grid(metres))
distMore(a, b, metres) == getDist2(a, b) > Sq(Grid(metres))

Abs(x) == IF x < 0 THEN 0 - x ELSE x

\* angleDiff(a, b) in degrees, wrapped to (-180, 180].
angleDiff(a, b) ==
    LET d == (a - b) % 360
    IN  IF d > 180 THEN d - 360 ELSE d

\* cos and sin of the headings the model uses (multiples of 90 degrees).
Cos(yaw) == CASE yaw % 360 = 0 -> 1 [] yaw % 360 = 180 -> 0 - 1 [] OTHER -> 0
Sin(yaw) == CASE yaw % 360 = 90 -> 1 [] yaw % 360 = 270 -> 0 - 1 [] OTHER -> 0

\* Static anchor position (anchorX = 1.0, anchorY = 0.0).
anchorPos == <<Grid(1), 0>>

RECURSIVE SumX(_), SumY(_), SumYaw(_)
SumX(ps) == IF ps = <<>> THEN 0 ELSE Head(ps).pos[1] + SumX(Tail(ps))
SumY(ps) == IF ps = <<>> THEN 0 ELSE Head(ps).pos[2] + SumY(Tail(ps))
SumYaw(ps) == IF ps = <<>> THEN 0 ELSE Head(ps).yaw + SumYaw(Tail(ps))

Min(S) == CHOOSE x \in S : \A y \in S : x <= y

----------------------------------------------------------------------------
\* Parent-class directives, recorded in the tick's log.

Emit(m, ev) == [m EXCEPT !.log = Append(@, ev)]

\* BOBCAT.stop(): halt motion.
stop(m) == [Emit(m, "stop") EXCEPT !.r.status = "Stop"]

\* BOBCAT.setGoalPoint(reason): select the goal point for Report/Home/guiCommand.
setGoalPoint(m, reason) == [Emit(m, reason) EXCEPT !.r.status = reason]

\* Lines 329-331: fall back to the trajectory follower.
useTrajectory(r) ==
    cfg.useTraj \/
    (~r.planner_status /\ (r.stuck > stopCheck \/ distLess(r.goal, r.pose.pos, 1)))

\* deconflictExplore: explore with goal deconfliction (the goal and path that
\* deconflictGoals selects are not part of the model).
deconflictExplore(m) ==
    LET e == [Emit(m, "Explore") EXCEPT !.r.status = "Explore"]
    IN  IF useTrajectory(e.r) THEN Emit(e, "trajectory") ELSE e

----------------------------------------------------------------------------
\* deployBeacon

FirstOwned(beacons) ==
    LET own == {b \in Beacons : beacons[b].owner}
    IN  IF own = {} THEN NoBeacon ELSE Min(own)

\* The first available beacon for this agent (iteration order of self.beacons).
FirstAvailable(beacons) ==
    LET avail == {b \in Beacons : beacons[b].owner /\ ~beacons[b].active}
    IN  IF avail = {} THEN NoBeacon ELSE Min(avail)

deployBeaconKeepsCount(m, inplace, dropReason, site) ==
    LET deploy == FirstAvailable(m.r.beacons)
    IN  IF deploy # NoBeacon
        THEN [Emit(stop(m), "deploying") EXCEPT
                !.r.status = "Deploy",
                !.call = [stage |-> IF cfg.useSimComms THEN "wait_for_service"
                                    ELSE "mechanism",
                          site |-> site,
                          deploy |-> deploy,
                          inplace |-> inplace,
                          dropReason |-> dropReason,
                          pose |-> m.r.pose]]
        ELSE [Emit(m, "no beacon") EXCEPT !.r.mode = "Explore"]

\* Lines 119-134 and 196-200: select a beacon; with one selected, stop, set the
\* status and block in the deployment (the tick is suspended: m.call);
\* with none, reset the count and force Explore.
deployBeacon(m, inplace, dropReason, site) ==
    LET deploy == FirstAvailable(m.r.beacons)
    IN  IF deploy # NoBeacon
        THEN [Emit(stop(m), "deploying") EXCEPT
                !.r.status = "Deploy",
                !.call = [stage |-> IF cfg.useSimComms THEN "wait_for_service"
                                    ELSE "mechanism",
                          site |-> site,
                          deploy |-> deploy,
                          inplace |-> inplace,
                          dropReason |-> dropReason,
                          pose |-> m.r.pose]]
        ELSE [Emit(m, "no beacon") EXCEPT !.r.numBeacons = 0, !.r.mode = "Explore"]

\* Lines 148-157: the drop-back pose behind the current heading.
dropBack(pose, inplace) ==
    LET offset == IF inplace THEN 1 ELSE Grid(6)
    IN  [pose EXCEPT !.pos = <<pose.pos[1] - Cos(pose.yaw) * offset,
                               pose.pos[2] - Sin(pose.yaw) * offset>>]

\* Lines 136-163 once wait_for_service returned.
deployServiceReady(m) ==
    LET p == dropBack(m.call.pose, m.call.inplace)
    IN  [m EXCEPT !.call.stage = "mechanism", !.call.pose = p]

\* Lines 164-183: the try block reaches "Resume the mission" unless a
\* statement raises; the service's answer is printed, not tested.
deploySucceeded(outcome) == outcome # "raise"

deployFinishBooksFirst(m, outcome) ==
    LET c == m.call
        booked == [Emit(m, outcome) EXCEPT
                     !.call = NoCall,
                     !.r.numBeacons = @ - 1,
                     !.r.beacons[c.deploy] =
                         [@ EXCEPT !.active = TRUE, !.pos = c.pose.pos]]
    IN  IF deploySucceeded(outcome)
        THEN deconflictExplore(Emit(booked, "resume"))
        ELSE Emit(booked, "logerr")

deployFinishKeepsCount(m, outcome) ==
    LET c == m.call
        ended == [Emit(m, outcome) EXCEPT !.call = NoCall]
    IN  IF deploySucceeded(outcome)
        THEN LET resumed == deconflictExplore(Emit(ended, "resume"))
             IN  [resumed EXCEPT
                    !.r.beacons[c.deploy] =
                        [@ EXCEPT !.active = TRUE, !.pos = c.pose.pos]]
        ELSE Emit(ended, "logerr")

\* Lines 164-195: trigger, wait, resume and book the beacon; on an exception
\* nothing after the raising statement runs.
deployFinish(m, outcome) ==
    LET c == m.call
        ended == [Emit(m, outcome) EXCEPT !.call = NoCall]
    IN  IF deploySucceeded(outcome)
        THEN LET resumed == deconflictExplore(Emit(ended, "resume"))
             IN  [resumed EXCEPT
                    !.r.numBeacons = @ - 1,
                    !.r.beacons[c.deploy] =
                        [@ EXCEPT !.active = TRUE, !.pos = c.pose.pos]]
        ELSE Emit(ended, "logerr")

----------------------------------------------------------------------------
\* beaconDistCheck

\* Active beacons, and those of them farther than checkDist from the pose.
activeBeacons(beacons) == {b \in Beacons : beacons[b].active}
distBeacons(beacons, pose, checkDist) ==
    {b \in activeBeacons(beacons) : distMore(pose.pos, beacons[b].pos, checkDist)}

\* "Cancel the drop if we have more than one beacon in range"
\* (numBeacons - numDistBeacons > 0).
cancelDrop(numBeacons, numDistBeacons) == numBeacons - numDistBeacons > 0

\* Returns [dropBeacon, numBeacons, numDistBeacons].
beaconDistCheck(beacons, pose, checkDist, dropBeacon) ==
    LET numBeacons == Cardinality(activeBeacons(beacons))
        numDistBeacons == Cardinality(distBeacons(beacons, pose, checkDist))
        flagged == dropBeacon \/ numDistBeacons > 0
    IN  [dropBeacon |-> IF cancelDrop(numBeacons, numDistBeacons) THEN FALSE ELSE flagged,
         numBeacons |-> numBeacons,
         numDistBeacons |-> numDistBeacons]

----------------------------------------------------------------------------
\* beaconCheck

\* history[:int(0.4 * hislen)] and history[int(0.6 * hislen):]
firstWindow(history) == SubSeq(history, 1, (4 * hislen) \div 10)
lastWindow(history) == SubSeq(history, (6 * hislen) \div 10 + 1, Len(history))

\* Lines 259-265: the two window means are more than 4 m apart, their headings
\* differ by more than 30 degrees, and the last step is longer than 0.5 m.
\* averagePose is the arithmetic mean; the means are compared cross-multiplied.
turned(history) ==
    LET w1 == firstWindow(history)
        w2 == lastWindow(history)
        n1 == Len(w1)
        n2 == Len(w2)
        dx == SumX(w1) * n2 - SumX(w2) * n1
        dy == SumY(w1) * n2 - SumY(w2) * n1
        dyaw == (SumYaw(w1) * n2 - SumYaw(w2) * n1) % (360 * n1 * n2)
        wrapped == IF dyaw > 180 * n1 * n2 THEN dyaw - 360 * n1 * n2 ELSE dyaw
    IN  /\ dx * dx + dy * dy > Sq(Grid(4) * n1 * n2)
        /\ Abs(wrapped) > 30 * n1 * n2
        /\ getDist2(history[Len(history) - 1].pos, history[Len(history)].pos) > 1

\* Line 278: pose.position.y < 1 and pose.position.y > 1
deadband(y) == y < Grid(1) /\ y > Grid(1)

\* Lines 245-249: the anchor-range rule.
anchorRule(r) ==
    IF distMore(r.pose.pos, anchorPos, maxAnchorDist) /\ ~r.delayDrop
    THEN [dropBeacon |-> TRUE, dropReason |-> "anchor distance", checkDist |-> maxDist]
    ELSE [dropBeacon |-> FALSE, dropReason |-> "", checkDist |-> maxAnchorDist]

\* Lines 251-268: junction, else turn, override the anchor rule.
junctionRule(r, prev) ==
    IF r.atnode
    THEN [dropBeacon |-> TRUE, dropReason |-> "at junction", checkDist |-> junctionDist]
    ELSE IF cfg.turnDetect /\ Len(r.history) = hislen /\ turned(r.history)
         THEN [dropBeacon |-> TRUE, dropReason |-> "at turn",
               checkDist |-> junctionDist + 5]
         ELSE prev

reclassifyAlways(dropReason, numDistBeacons) ==
    IF numDistBeacons > 0 THEN "beacon distance" ELSE dropReason

\* Lines 272-273.
reclassify(dropReason, numDistBeacons) ==
    IF numDistBeacons > 0 /\ (dropReason = "" \/ dropReason = "anchor distance")
    THEN "beacon distance"
    ELSE dropReason

inCommCheckKeepsDelay(m) ==
    LET r == m.r
        rule == junctionRule(r, anchorRule(r))
        chk == beaconDistCheck(r.beacons, r.pose, rule.checkDist, rule.dropBeacon)
        dropReason == reclassify(rule.dropReason, chk.numDistBeacons)
        suppressed == chk.numBeacons > 0
                      /\ distLess(r.pose.pos, anchorPos, maxAnchorDist)
                      /\ deadband(r.pose.pos[2])
        dropBeacon == chk.dropBeacon /\ ~suppressed
    IN  IF distLess(r.pose.pos, anchorPos, minAnchorDist)
        THEN m
        ELSE IF dropBeacon
             THEN IF r.delayDrop
                  THEN m
                  ELSE deployBeacon(m, TRUE, dropReason, "policy")
             ELSE m

\* Lines 236-285: the drop policy while in comm.
inCommCheck(m) ==
    LET r == m.r
        rule == junctionRule(r, anchorRule(r))
        chk == beaconDistCheck(r.beacons, r.pose, rule.checkDist, rule.dropBeacon)
        dropReason == reclassify(rule.dropReason, chk.numDistBeacons)
        suppressed == chk.numBeacons > 0
                      /\ distLess(r.pose.pos, anchorPos, maxAnchorDist)
                      /\ deadband(r.pose.pos[2])
        dropBeacon == chk.dropBeacon /\ ~suppressed
    IN  IF distLess(r.pose.pos, anchorPos, minAnchorDist)
        THEN m
        ELSE IF dropBeacon
             THEN IF r.delayDrop
                  THEN [m EXCEPT !.r.delayDrop = FALSE]
                  ELSE deployBeacon(m, TRUE, dropReason, "policy")
             ELSE m

triedExactly(bl_beacons, pos) ==
    \E i \in 1..Len(bl_beacons) : pos = bl_beacons[i]

\* Lines 292-296: a reverse drop was already attempted in this area.
triedNearby(bl_beacons, pos) ==
    \E i \in 1..Len(bl_beacons) : distLess(pos, bl_beacons[i], junctionDist)

\* Lines 286-304: comm lost, reverse drop enabled.
commLostCheck(m) ==
    LET r == m.r
        lost == r.beaconCommLost + 1
        skip == triedNearby(r.bl_beacons, r.pose.pos)
    IN  IF lost > 5
        THEN IF skip
             THEN [m EXCEPT !.r.beaconCommLost = 0, !.r.reverseDrop = FALSE]
             ELSE [m EXCEPT !.r.beaconCommLost = 0,
                            !.r.mode = "Deploy",
                            !.r.bl_beacons = Append(@, r.pose.pos)]
        ELSE [m EXCEPT !.r.beaconCommLost = lost]

beaconCheck(m) ==
    IF m.r.numBeacons > 0
    THEN IF m.r.incomm
         THEN inCommCheck([m EXCEPT !.r.beaconCommLost = 0,
                                    !.r.reverseDrop = cfg.reverseDropEnable])
         ELSE IF m.r.reverseDrop THEN commLostCheck(m) ELSE m
    ELSE m

----------------------------------------------------------------------------
\* run(): the tick, in the three stretches between which it may block in
\* deployBeacon.  m = [r: the robot, log: the directives issued, call: the
\* pending deployBeacon call, ret: run() has returned].

suspended(m) == m.call.stage # "none"

\* updateHistory
updateHistory(r) ==
    LET started == IF r.initialPose = <<>>
                   THEN r.startedMission
                   ELSE r.startedMission
                        \/ distMore(r.pose.pos, r.initialPose[1].pos, 5)
        appended == Append(r.history, r.pose)
    IN  [r EXCEPT !.initialPose = IF @ = <<>> THEN <<r.pose>> ELSE @,
                  !.startedMission = started,
                  !.history = IF Len(appended) > hislen
                              THEN SubSeq(appended, Len(appended) - hislen + 1,
                                          Len(appended))
                              ELSE appended]

\* Lines 363-365: not moved over the whole history window.
notMoved(history) ==
    /\ getDist2(history[1].pos, history[Len(history)].pos) < 1
    /\ Abs(angleDiff(history[1].yaw, history[Len(history)].yaw)) < 60

RECURSIVE sumPoints(_)
sumPoints(ps) ==
    IF ps = <<>> THEN <<0, 0>>
    ELSE LET t == sumPoints(Tail(ps))
         IN  <<Head(ps)[1] + t[1], Head(ps)[2] + t[2]>>

\* averagePosition(points): the mean, kept as <<sum x, sum y, count>>.
averagePosition(ps) == <<sumPoints(ps)[1], sumPoints(ps)[2], Len(ps)>>

\* getDist(goal, avgGoal) < self.deconflictRadius * 2  (2.5 * 2 metres)
nearMean(goal, avg) ==
    Sq(goal[1] * avg[3] - avg[1]) + Sq(goal[2] * avg[3] - avg[2])
        < Sq(Grid(5) * avg[3])

RECURSIVE removeOutliers(_, _)
removeOutliers(ps, avg) ==
    IF ps = <<>> THEN <<>>
    ELSE IF nearMean(Head(ps), avg)
         THEN <<Head(ps)>> \o removeOutliers(Tail(ps), avg)
         ELSE removeOutliers(Tail(ps), avg)

blacklistStuckEveryTick(r) ==
    IF r.stuck >= stopCheck
    THEN LET newgoals == removeOutliers(r.blgoals, averagePosition(r.blgoals))
             avgGoal == averagePosition(newgoals)
         IN  IF 2 * Len(newgoals) > hislen /\ ~(avgGoal[1] = 0 /\ avgGoal[2] = 0)
             THEN [r EXCEPT !.blacklist = @ \cup {avgGoal}, !.blgoals = <<>>]
             ELSE r
    ELSE r

\* Lines 374-393: at the stopCheck intervals, blacklist the mean of the goals
\* that survive the outlier filter.
blacklistStuck(r) ==
    IF r.stuck >= stopCheck /\ r.stuck % stopCheck = 0
    THEN LET newgoals == removeOutliers(r.blgoals, averagePosition(r.blgoals))
             avgGoal == averagePosition(newgoals)
         IN  IF 2 * Len(newgoals) > hislen /\ ~(avgGoal[1] = 0 /\ avgGoal[2] = 0)
             THEN [r EXCEPT !.blacklist = @ \cup {avgGoal}, !.blgoals = <<>>]
             ELSE r
    ELSE r

statusChecksKeepsGoals(r) ==
    IF r.startedMission /\ r.status # "Stop" /\ ~cfg.aerialId
       /\ r.hasPath /\ Len(r.history) = hislen
    THEN blacklistStuck(
            IF notMoved(r.history)
            THEN [r EXCEPT !.stuck = @ + 1, !.blgoals = Append(@, r.goal)]
            ELSE [r EXCEPT !.stuck = 0])
    ELSE r

\* Lines 359-401: status checks once the mission has started.
statusChecks(r) ==
    IF r.startedMission /\ r.status # "Stop" /\ ~cfg.aerialId
       /\ r.hasPath /\ Len(r.history) = hislen
    THEN blacklistStuck(
            IF notMoved(r.history)
            THEN [r EXCEPT !.stuck = @ + 1, !.blgoals = Append(@, r.goal)]
            ELSE [r EXCEPT !.stuck = 0, !.blgoals = <<>>])
    ELSE r

\* guiTaskName and guiTaskValue are read only under guiAccept, and a new GUI
\* message overwrites them: they are cleared together with guiAccept.

\* Lines 418-425 after the GUI 'Deploy' command's deployBeacon returned.
guiDeployTail(m) ==
    [Emit(m, "estop_off") EXCEPT !.r.mode = "Explore", !.r.guiAccept = FALSE,
                                 !.r.guiTaskName = "", !.r.guiTaskValue = ""]

\* Lines 405-425 for every GUI task but 'Deploy'.
guiTask(m) ==
    LET v == m.r.guiTaskValue
        mode == IF v = "Explore" \/ v = "Start" THEN "Explore"
                ELSE IF v = "Home" \/ v = "Stop" \/ v = "Goal" THEN v
                ELSE m.r.mode
    IN  IF m.r.guiTaskName = "task"
        THEN [Emit(m, "estop_off") EXCEPT !.r.mode = mode, !.r.guiAccept = FALSE,
                                          !.r.guiTaskName = "", !.r.guiTaskValue = ""]
        ELSE [Emit(m, "guiTask") EXCEPT !.r.guiAccept = FALSE,
                                        !.r.guiTaskName = "", !.r.guiTaskValue = ""]

\* artifactCheckReport
artifactCheckReport(r) ==
    IF ~r.report /\ r.unreported THEN [r EXCEPT !.report = TRUE] ELSE r

reportClearedUpTo(r) == cfg.solo \/ r.baseLastArtifact <= r.lastArtifact

\* Line 463: the base has seen our latest artifact, or nobody to report to.
reportCleared(r) == cfg.solo \/ r.baseLastArtifact = r.lastArtifact

\* Lines 494-499 after the 'Regain comms' deployBeacon returned.
regainTail(m) == [m EXCEPT !.r.mode = "Explore", !.r.regainBase = 0]

\* Lines 483-505: reverse deploy mode.
deployMode(m) ==
    IF m.r.incomm
    THEN IF m.r.regainBase = Unset
         THEN [Emit(m, "AttributeError") EXCEPT !.ret = TRUE]
         ELSE IF m.r.regainBase > 5
              THEN IF beaconDistCheck(m.r.beacons, m.r.pose, junctionDist, TRUE).dropBeacon
                   THEN LET d == deployBeacon(m, TRUE, "Regain comms", "regain")
                        IN  IF suspended(d) THEN d ELSE regainTail(d)
                   ELSE regainTail(m)
              ELSE [m EXCEPT !.r.regainBase = @ + 1]
    ELSE setGoalPoint([m EXCEPT !.r.regainBase = 0], "Home")

modeBranchAtOneMetre(m) ==
    IF m.r.mode = "Home" THEN setGoalPoint(m, "Home")
    ELSE IF m.r.mode = "Stop" THEN stop(m)
    ELSE IF m.r.mode = "Deploy" THEN deployMode(m)
    ELSE IF m.r.mode = "Goal"
         THEN IF ~distMore(m.r.pose.pos, m.r.guiGoalPoint, 1)
              THEN deconflictExplore([m EXCEPT !.r.mode = "Explore"])
              ELSE setGoalPoint(m, "guiCommand")
    ELSE deconflictExplore(m)

\* Lines 479-519: the mode arbitration.
modeBranch(m) ==
    IF m.r.mode = "Home" THEN setGoalPoint(m, "Home")
    ELSE IF m.r.mode = "Stop" THEN stop(m)
    ELSE IF m.r.mode = "Deploy" THEN deployMode(m)
    ELSE IF m.r.mode = "Goal"
         THEN IF distLess(m.r.pose.pos, m.r.guiGoalPoint, 1)
              THEN deconflictExplore([m EXCEPT !.r.mode = "Explore"])
              ELSE setGoalPoint(m, "guiCommand")
    ELSE deconflictExplore(m)

arbitrate(m) == modeBranch(Emit(m, "arbitrate"))

\* Lines 521-539: aerial robots ignore map merges until airborne.
aerialGate(m) ==
    IF m.r.isAerial /\ ~m.r.launch_status /\ ~m.r.resetIgnore
    THEN [Emit(m, "reset") EXCEPT !.r.resetIgnore = TRUE]
    ELSE IF m.r.isAerial /\ m.r.launch_status /\ m.r.resetIgnore
         THEN [Emit(m, "reset") EXCEPT !.r.resetIgnore = FALSE]
         ELSE m

runFromReportResetsMode(m) ==
    LET c == [m EXCEPT !.r = artifactCheckReport(m.r)]
        cleared == [c EXCEPT !.r.report = FALSE, !.r.unreported = FALSE]
        a == arbitrate(IF c.r.report THEN cleared ELSE c)
    IN  IF c.r.report /\ ~reportCleared(c.r)
        THEN [setGoalPoint(c, "Report") EXCEPT !.ret = TRUE, !.r.mode = "Explore"]
        ELSE IF suspended(a) \/ a.ret THEN a ELSE aerialGate(a)

\* Lines 451-539: report check, arbitration, aerial gate.
runFromReport(m) ==
    LET c == [m EXCEPT !.r = artifactCheckReport(m.r)]
        cleared == [c EXCEPT !.r.report = FALSE, !.r.unreported = FALSE]
        a == arbitrate(IF c.r.report THEN cleared ELSE c)
    IN  IF c.r.report /\ ~reportCleared(c.r)
        THEN [setGoalPoint(c, "Report") EXCEPT !.ret = TRUE]
        ELSE IF suspended(a) \/ a.ret THEN a ELSE aerialGate(a)

\* Lines 353-429, then on to the report check unless blocked in deployBeacon.
runFromStart(m) ==
    LET h == [Emit(m, "comm_pub") EXCEPT !.r = statusChecks(updateHistory(m.r))]
        d == deployBeacon(h, TRUE, "GUI Command", "gui")
        b == beaconCheck(IF h.r.guiAccept THEN guiTask(h) ELSE h)
    IN  IF h.r.guiAccept /\ h.r.guiTaskName = "task" /\ h.r.guiTaskValue = "Deploy"
        THEN IF suspended(d) THEN d ELSE runFromReport(guiDeployTail(d))
        ELSE IF suspended(b) THEN b ELSE runFromReport(b)

\* The rest of the tick once deployBeacon returned to its caller.
runAfterDeploy(m, site) ==
    IF site = "gui" THEN runFromReport(guiDeployTail(m))
    ELSE IF site = "policy" THEN runFromReport(m)
    ELSE aerialGate(regainTail(m))

----------------------------------------------------------------------------
\* State after construction.

Pose(x, y, yaw) == [pos |-> <<Grid(x), Grid(y)>>, yaw |-> yaw]

\* Odometry samples: inside the minimum anchor distance, inside anchor range,
\* and two places beyond it that are more than maxDist apart.
poseNear == Pose(5, 0, 0)
poseMid == Pose(50, 0, 0)
poseFar == Pose(105, 0, 0)
poseFarther == Pose(140, 0, 0)

\* A beacon of the pool: owner (carried by this robot), active (deployed), pos.
Beacon(owner) == [owner |-> owner, active |-> FALSE, pos |-> <<0, 0>>]

\* BCRobot.__init__ (and the fields BOBCAT.__init__ provides).
InitRobot(c, pose, numBeacons, owned, regainBase) ==
    [ status |-> "Start",
      pose |-> pose, atnode |-> FALSE, incomm |-> TRUE,
      planner_status |-> TRUE, launch_status |-> TRUE, isAerial |-> FALSE,
      resetIgnore |-> FALSE,
      guiAccept |-> FALSE, guiTaskName |-> "", guiTaskValue |-> "",
      guiGoalPoint |-> <<0, 0>>,
      goal |-> <<0, 0>>, hasPath |-> FALSE,
      startedMission |-> FALSE, initialPose |-> <<>>, history |-> <<>>,
      stuck |-> 0, blgoals |-> <<>>, blacklist |-> {},
      numBeacons |-> numBeacons,
      beacons |-> [b \in Beacons |-> Beacon(b \in owned)],
      delayDrop |-> c.delayDrop, reverseDrop |-> c.reverseDropEnable,
      beaconCommLost |-> 0, regainBase |-> regainBase, bl_beacons |-> <<>>,
      mode |-> "Explore",
      report |-> FALSE, unreported |-> FALSE,
      lastArtifact |-> 0, baseLastArtifact |-> 0 ]

\* The handler-written fields a tick reads after a deployment: kept while the
\* tick is in progress.
Snapshot(r) ==
    [ pose |-> r.pose, incomm |-> r.incomm, planner_status |-> r.planner_status,
      launch_status |-> r.launch_status,
      isAerial |-> r.isAerial, atnode |-> r.atnode, unreported |-> r.unreported,
      lastArtifact |-> r.lastArtifact, baseLastArtifact |-> r.baseLastArtifact ]

NoSnapshot == [pose |-> <<>>]

NoProbe == [done |-> FALSE]

Config(sim, solo, turn, reverse, delay) ==
    [ useSimComms |-> sim, solo |-> solo, turnDetect |-> turn,
      reverseDropEnable |-> reverse, delayDrop |-> delay,
      useTraj |-> FALSE, aerialId |-> FALSE ]

InitWith(c, pose, numBeacons, owned, regainBase) ==
    /\ cfg = c
    /\ robot = InitRobot(c, pose, numBeacons, owned, regainBase)
    /\ call = NoCall
    /\ log = <<>>
    /\ lm = [at |-> "idle"]
    /\ service = FALSE
    /\ tickStart = NoSnapshot
    /\ probe = NoProbe

----------------------------------------------------------------------------
\* The main thread.

Machine == [r |-> robot, log |-> log, call |-> call, ret |-> FALSE]

Commit(m) ==
    /\ robot' = m.r
    /\ log' = m.log
    /\ call' = m.call
    /\ tickStart' = IF m.call.stage = "none" THEN NoSnapshot
                    ELSE IF call.stage = "none" THEN Snapshot(robot)
                    ELSE tickStart

\* run() from its first line to its return, or to the point where it blocks
\* in deployBeacon.
Tick ==
    /\ call.stage = "none"
    /\ robot.stuck < MaxStuck
    /\ Commit(runFromStart([Machine EXCEPT !.log = <<>>]))
    /\ UNCHANGED <<cfg, lm, service, probe>>

\* rospy.wait_for_service returns (simulated comms only).
ServiceReady ==
    /\ call.stage = "wait_for_service"
    /\ service
    /\ Commit(deployServiceReady(Machine))
    /\ UNCHANGED <<cfg, lm, service, probe>>

\* What the mechanism does: it acknowledges, it stays silent (the service
\* answers success = False, nothing comes back during the sleeps), or the
\* trigger or the service call raises.
Outcomes == {"ack", "noack", "raise"}

\* The deployment trigger and its waits end, deployBeacon returns and run()
\* goes on to its return or to the next deployBeacon.
Mechanism ==
    /\ call.stage = "mechanism"
    /\ \E outcome \in Outcomes :
          Commit(runAfterDeploy(deployFinish(Machine, outcome), call.site))
    /\ UNCHANGED <<cfg, lm, service, probe>>

----------------------------------------------------------------------------
\* Subscriber callbacks (rospy threads) and the simulator.

\* The log is that of the tick in progress or of the tick that has just
\* returned: it is dropped when the next event arrives between ticks.
Forget == log' = IF call.stage = "none" THEN <<>> ELSE log

Handle(r) ==
    /\ robot' = r
    /\ Forget
    /\ UNCHANGED <<cfg, call, lm, service, tickStart, probe>>

\* Odometry: a new message object replaces agent.odometry.
OdomMonitor(poses) ==
    \E p \in poses : p # robot.pose /\ Handle([robot EXCEPT !.pose = p])

\* Comm status of the base station.
CommMonitor ==
    /\ robot.incomm \/ Len(robot.bl_beacons) < MaxBl
    /\ Handle([robot EXCEPT !.incomm = ~@])

\* Junction detection.
NodeMonitor == Handle([robot EXCEPT !.atnode = ~@])

PlannerMonitor == Handle([robot EXCEPT !.planner_status = ~@])

\* LaunchMonitor, statement by statement.
LaunchMonitorBegin ==
    /\ lm.at = "idle"
    /\ \E data \in BOOLEAN : lm' = [at |-> "isAerial", data |-> data]
    /\ robot' = [robot EXCEPT !.isAerial = TRUE]
    /\ Forget
    /\ UNCHANGED <<cfg, call, service, tickStart, probe>>

LaunchMonitorEnd ==
    /\ lm.at = "isAerial"
    /\ lm' = [at |-> "idle"]
    /\ robot' = [robot EXCEPT !.launch_status = lm.data]
    /\ Forget
    /\ UNCHANGED <<cfg, call, service, tickStart, probe>>

TaskValues == {"Explore", "Start", "Home", "Stop", "Goal", "Deploy"}

\* A GUI task message is accepted.
GuiMonitor(values) ==
    /\ ~robot.guiAccept
    /\ \E v \in values :
          Handle([robot EXCEPT !.guiAccept = TRUE, !.guiTaskName = "task",
                               !.guiTaskValue = v])

\* A GUI message that is no task is accepted: a goal point.
GoalMonitor ==
    /\ ~robot.guiAccept
    /\ Handle([robot EXCEPT !.guiAccept = TRUE, !.guiTaskName = "goal",
                            !.guiTaskValue = "", !.guiGoalPoint = poseFar.pos])

\* The agent detects an artifact.
ArtifactMonitor ==
    /\ robot.lastArtifact < MaxArtifacts
    /\ Handle([robot EXCEPT !.lastArtifact = @ + 1, !.unreported = TRUE])

\* The base station tells which of the agent's artifacts it has seen last.
BaseMonitor ==
    /\ robot.baseLastArtifact < robot.lastArtifact
    /\ Handle([robot EXCEPT !.baseLastArtifact = robot.lastArtifact])

\* The goal and its path, as goal selection and the planner provide them.
PathMonitor(goals, paths) ==
    \E g \in goals, path \in paths :
        /\ <<g, path>> # <<robot.goal, robot.hasPath>>
        /\ Handle([robot EXCEPT !.goal = g, !.hasPath = path])

\* The simulator's service comes up or goes away.
ServiceMonitor ==
    /\ cfg.useSimComms
    /\ service' = ~service
    /\ Forget
    /\ UNCHANGED <<cfg, robot, call, lm, tickStart, probe>>

----------------------------------------------------------------------------
\* Spec: the coordinator with its GUI, comm, junction and artifact inputs, on
\* a live robot standing beyond anchor range with its beacons on board and a
\* base station to report to (not solo).

Init ==
    \E regainBase \in {0, Unset} :
        InitWith(Config(FALSE, FALSE, FALSE, TRUE, FALSE), poseFar,
                 MaxBeacons, Beacons, regainBase)

Next ==
    \/ Tick
    \/ Mechanism
    \/ CommMonitor
    \/ NodeMonitor
    \/ GuiMonitor(TaskValues)
    \/ GoalMonitor
    \/ ArtifactMonitor
    \/ BaseMonitor

Spec == Init /\ [][Next]_vars

----------------------------------------------------------------------------
\* DeploySpec: the deployment sequencer from its three call sites (GUI command,
\* drop policy, regained comms), live and simulated, with a consistent and
\* with an inconsistent beacon count.

DeployTasks == {"Deploy", "Stop", "Home"}

DeployInit ==
    \E sim \in BOOLEAN, n \in {0, MaxBeacons}, owned \in {{}, Beacons} :
        InitWith(Config(sim, FALSE, FALSE, TRUE, FALSE), poseFar, n, owned, 0)

DeployNext ==
    \/ Tick
    \/ ServiceReady
    \/ Mechanism
    \/ CommMonitor
    \/ NodeMonitor
    \/ GuiMonitor(DeployTasks)
    \/ ServiceMonitor

DeploySpec == DeployInit /\ [][DeployNext]_vars

\* The main thread runs whenever it can (rospy's rate loop and the return of
\* a blocking call); nothing obliges the simulator to offer its service.
FairDeploySpec ==
    DeploySpec /\ WF_vars(Tick) /\ WF_vars(ServiceReady) /\ WF_vars(Mechanism)

----------------------------------------------------------------------------
\* PolicySpec: the drop policy on a robot that drives around a corner beyond
\* anchor range, with turn detection on.

poseCorner == Pose(110, 0, 90)
poseAfterCorner == Pose(110, 5, 90)

PolicyPoses == {poseMid, poseFar, poseCorner, poseAfterCorner}

PolicyInit ==
    \E delay \in BOOLEAN :
        InitWith(Config(FALSE, FALSE, TRUE, FALSE, delay), poseFar,
                 MaxBeacons, Beacons, 0)

PolicyNext ==
    \/ Tick
    \/ Mechanism
    \/ OdomMonitor(PolicyPoses)
    \/ NodeMonitor

PolicySpec == PolicyInit /\ [][PolicyNext]_vars

----------------------------------------------------------------------------
\* LaunchSpec: an aerial robot at a junction beyond anchor range: the launch
\* and planner callbacks against ticks that deploy.

LaunchInit ==
    InitWith(Config(FALSE, FALSE, FALSE, FALSE, FALSE), poseFar,
             MaxBeacons, Beacons, 0)

LaunchNext ==
    \/ Tick
    \/ Mechanism
    \/ OdomMonitor({poseFar, poseFarther})
    \/ NodeMonitor
    \/ PlannerMonitor
    \/ LaunchMonitorBegin
    \/ LaunchMonitorEnd

LaunchSpec == LaunchInit /\ [][LaunchNext]_vars

----------------------------------------------------------------------------
\* DistSpec: beaconDistCheck applied to a pool of beacons that are inactive,
\* active near the pose or active far from it.

ProbePoses == {poseFar, poseFarther}

ProbeBeacons ==
    [Beacons -> {Beacon(TRUE)}
                \cup {[owner |-> TRUE, active |-> TRUE, pos |-> p.pos] : p \in ProbePoses}]

DistInit ==
    /\ cfg = Config(FALSE, FALSE, FALSE, FALSE, FALSE)
    /\ robot = InitRobot(cfg, poseFar, 0, {}, 0)
    /\ call = NoCall
    /\ log = <<>>
    /\ lm = [at |-> "idle"]
    /\ service = FALSE
    /\ tickStart = NoSnapshot
    /\ probe \in [done : {FALSE}, beacons : ProbeBeacons, pose : ProbePoses,
                  checkDist : {junctionDist, maxDist, maxAnchorDist},
                  dropBeacon : BOOLEAN]

DistApply ==
    /\ ~probe.done
    /\ probe' = [done |-> TRUE, beacons |-> probe.beacons, pose |-> probe.pose,
                 checkDist |-> probe.checkDist, dropBeacon |-> probe.dropBeacon,
                 result |-> beaconDistCheck(probe.beacons, probe.pose,
                                            probe.checkDist, probe.dropBeacon)]
    /\ UNCHANGED <<cfg, robot, call, log, lm, service, tickStart>>

DistSpec == DistInit /\ [][DistApply]_vars

----------------------------------------------------------------------------
\* AnchorSpec: a live robot standing inside the minimum anchor distance with
\* its beacons on board, commanded from the GUI and losing and regaining comm.

AnchorInit ==
    InitWith(Config(FALSE, FALSE, FALSE, TRUE, FALSE), poseNear,
             MaxBeacons, Beacons, 0)

AnchorNext ==
    \/ Tick
    \/ Mechanism
    \/ CommMonitor
    \/ NodeMonitor
    \/ GuiMonitor(DeployTasks)

AnchorSpec == AnchorInit /\ [][AnchorNext]_vars

----------------------------------------------------------------------------
\* CommSpec: a robot inside anchor range that loses and regains comm while it
\* moves between two places 3 m apart and a third 30 m away, reverse drop
\* enabled.

poseMidNear == Pose(53, 0, 0)
poseMidFar == Pose(80, 0, 0)

CommPoses == {poseMid, poseMidNear, poseMidFar}

CommInit ==
    InitWith(Config(FALSE, FALSE, FALSE, TRUE, FALSE), poseMid,
             MaxBeacons, Beacons, 0)

CommNext ==
    \/ Tick
    \/ Mechanism
    \/ CommMonitor
    \/ OdomMonitor(CommPoses)

CommSpec == CommInit /\ [][CommNext]_vars

----------------------------------------------------------------------------
\* StuckSpec: stuck detection on a robot without beacons that leaves its
\* starting area, stands still, turns on the spot or drives on, with and
\* without a path to its goal, stopped from the GUI or not.

poseTurned == Pose(140, 0, 90)

StuckPoses == {poseFar, poseFarther, poseTurned}

StuckGoals == {<<Grid(6), 0>>}

StuckTasks == {"Stop"}

StuckInit ==
    \E aerial \in BOOLEAN :
        InitWith([Config(FALSE, FALSE, FALSE, FALSE, FALSE) EXCEPT !.aerialId = aerial],
                 poseFar, 0, {}, 0)

StuckNext ==
    \/ Tick
    \/ OdomMonitor(StuckPoses)
    \/ PathMonitor(StuckGoals, BOOLEAN)
    \/ GuiMonitor(StuckTasks)

StuckSpec == StuckInit /\ [][StuckNext]_vars

----------------------------------------------------------------------------
\* BlacklistSpec: the blacklist commits of stuck detection on a robot that
\* leaves its starting area and stands still, with goals at the origin, 6 m
\* and 21 m from it.

BlacklistGoals == {<<0, 0>>, <<Grid(6), 0>>, <<Grid(21), 0>>}

BlacklistInit ==
    InitWith(Config(FALSE, FALSE, FALSE, FALSE, FALSE), poseFar, 0, {}, 0)

BlacklistNext ==
    \/ Tick
    \/ OdomMonitor({poseFar, poseFarther})
    \/ PathMonitor(BlacklistGoals, {TRUE})

BlacklistSpec == BlacklistInit /\ [][BlacklistNext]_vars

----------------------------------------------------------------------------
\* OutlierSpec: the blacklist commit of stuck detection applied to four
\* pending goals, at the second multiple of stopCheck.

OutlierGoals == {<<0, 0>>, <<Grid(6), 0>>, <<Grid(100), Grid(100)>>}

OutlierInit ==
    /\ cfg = Config(FALSE, FALSE, FALSE, FALSE, FALSE)
    /\ robot = InitRobot(cfg, poseFar, 0, {}, 0)
    /\ call = NoCall
    /\ log = <<>>
    /\ lm = [at |-> "idle"]
    /\ service = FALSE
    /\ tickStart = NoSnapshot
    /\ probe \in [done : {FALSE}, blgoals : [1..4 -> OutlierGoals]]

OutlierApply ==
    /\ ~probe.done
    /\ probe' = [done |-> TRUE, blgoals |-> probe.blgoals,
                 result |-> blacklistStuck([robot EXCEPT !.stuck = 2 * stopCheck,
                                                         !.blgoals = probe.blgoals])]
    /\ UNCHANGED <<cfg, robot, call, log, lm, service, tickStart>>

OutlierSpec == OutlierInit /\ [][OutlierApply]_vars

----------------------------------------------------------------------------
\* GoalSpec: a robot with its beacons on board is sent by the GUI to a goal
\* point, and drives on it, to exactly 1.0 m of it, and away from it.

poseGoalEdge == Pose(106, 0, 0)

GoalPoses == {poseFar, poseGoalEdge, poseFarther}

GoalTasks == {"Goal", "Explore", "Home"}

GoalInit ==
    InitWith(Config(FALSE, FALSE, FALSE, FALSE, FALSE), poseFar,
             MaxBeacons, Beacons, 0)

GoalNext ==
    \/ Tick
    \/ Mechanism
    \/ OdomMonitor(GoalPoses)
    \/ GuiMonitor(GoalTasks)
    \/ GoalMonitor

GoalSpec == GoalInit /\ [][GoalNext]_vars

----------------------------------------------------------------------------
\* AerialSpec: a robot without beacons receives launch messages (carried,
\* then airborne, or the reverse) and finds artifacts it reports to the base.

AerialInit ==
    InitWith(Config(FALSE, FALSE, FALSE, FALSE, FALSE), poseFar, 0, {}, 0)

AerialNext ==
    \/ Tick
    \/ LaunchMonitorBegin
    \/ LaunchMonitorEnd
    \/ ArtifactMonitor
    \/ BaseMonitor

AerialSpec == AerialInit /\ [][AerialNext]_vars

----------------------------------------------------------------------------
\* RegainSpec: reverse deploy.  A robot with its beacons on board, inside
\* anchor range, loses and regains comm at two places more than junctionDist
\* apart, is sent Home by the GUI and finds an artifact.  The observer
\* counts in probe.commTicks the consecutive ticks that reached the mode
\* arbitration with comm to the base (capped at RegainTicks + 1).

RegainTicks == 5

RegainPoses == {poseMid, poseMidFar}

RegainTasks == {"Home"}

RegainInit ==
    /\ cfg = Config(FALSE, FALSE, FALSE, TRUE, FALSE)
    /\ robot = InitRobot(cfg, poseMid, MaxBeacons, Beacons, Unset)
    /\ call = NoCall
    /\ log = <<>>
    /\ lm = [at |-> "idle"]
    /\ service = FALSE
    /\ tickStart = NoSnapshot
    /\ probe = [done |-> FALSE, commTicks |-> 0]

\* The observer's count after a step of the main thread: a step that reaches
\* the arbitration counts one more tick with comm, or starts again from 0;
\* a step that does not reach it (the tick returned to report, or this is
\* the end of a 'Regain comms' deployment) leaves the count.
CountedTicks(m) ==
    IF "arbitrate" \in {m.log[i] : i \in (IF call.stage = "none" THEN 1 ELSE Len(log) + 1)..Len(m.log)}
    THEN IF robot.incomm
         THEN IF probe.commTicks > RegainTicks THEN probe.commTicks ELSE probe.commTicks + 1
         ELSE 0
    ELSE probe.commTicks

Counted(m) ==
    /\ Commit(m)
    /\ probe' = [probe EXCEPT !.commTicks = CountedTicks(m)]
    /\ UNCHANGED <<cfg, lm, service>>

\* run() as in Tick, observed.
CountedTick ==
    /\ call.stage = "none"
    /\ robot.stuck < MaxStuck
    /\ Counted(runFromStart([Machine EXCEPT !.log = <<>>]))

\* The end of a deployment as in Mechanism, observed.
CountedMechanism ==
    /\ call.stage = "mechanism"
    /\ \E outcome \in Outcomes :
          Counted(runAfterDeploy(deployFinish(Machine, outcome), call.site))

\* Comm status of the base station, as often as the link changes: here the
\* two places bound the reverse-drop sites recorded in bl_beacons.
BaseCommMonitor == Handle([robot EXCEPT !.incomm = ~@])

RegainNext ==
    \/ CountedTick
    \/ CountedMechanism
    \/ BaseCommMonitor
    \/ OdomMonitor(RegainPoses)
    \/ GuiMonitor(RegainTasks)
    \/ ArtifactMonitor
    \/ BaseMonitor

RegainSpec == RegainInit /\ [][RegainNext]_vars

----------------------------------------------------------------------------
\* InventorySpec: the deployment sequencer as in DeploySpec, on a robot whose
\* beacon count is that of the beacons it owns.

InventoryInit ==
    \E sim \in BOOLEAN, owned \in SUBSET Beacons :
        InitWith(Config(sim, FALSE, FALSE, TRUE, FALSE), poseFar,
                 Cardinality(owned), owned, Unset)

InventorySpec == InventoryInit /\ [][DeployNext]_vars

----------------------------------------------------------------------------
\* Properties.

Range(seq) == {seq[i] : i \in 1..Len(seq)}
Last(seq) == seq[Len(seq)]

\* A step of the main thread: run() begins, or the mechanism's outcome arrives
\* and run() goes on.
TickStep == call.stage = "none" /\ log' # <<>>
MechanismStep == call.stage = "mechanism" /\ Len(log') > Len(log)
\* The events the step adds to the log.
Added(ev) ==
    IF call.stage = "none"
    THEN ev \in Range(log')
    ELSE \E i \in (Len(log) + 1)..Len(log') : log'[i] = ev
\* The outcome a mechanism step begins with.
Outcome(o) == MechanismStep /\ log'[Len(log) + 1] = o

\* The step runs the report check of lines 461-476.
ReachesReportCheck ==
    \/ TickStep /\ (call'.stage = "none" \/ call'.site = "regain")
    \/ MechanismStep /\ call.site # "regain"

\* A report is pending at the check, and neither seen by the base nor solo.
ReportPending ==
    /\ robot.report \/ robot.unreported
    /\ robot.baseLastArtifact # robot.lastArtifact
    /\ ~cfg.solo

\* C1: a tick that reaches its report check with a report pending, the base's
\* last-seen artifact different from the agent's latest and the robot not
\* solo selects Report and returns: no mode arbitration runs in it, whatever
\* the mode and whatever GUI task the tick accepted.
C1_ReportPrecedence ==
    [][ReachesReportCheck /\ ReportPending
        => /\ call'.stage = "none"
           /\ Last(log') = "Report"
           /\ "arbitrate" \notin Range(log')]_vars

\* A tick accepted a GUI task, left mode = Stop and still went to Report.
C1_Witness ==
    /\ call.stage = "none"
    /\ Len(log) > 0
    /\ Last(log) = "Report"
    /\ "estop_off" \in Range(log)
    /\ robot.mode = "Stop"
    /\ robot.baseLastArtifact # robot.lastArtifact
    /\ ~cfg.solo

\* C2: a tick that returns with mode = Stop (Stop was accepted in it or before
\* it and no other task since) ends with the stop directive and has selected
\* no Report/Home/Goal/Explore goal nor resumed motion after a deployment.
C2_StopPreempts ==
    call.stage = "none" /\ log # <<>> /\ robot.mode = "Stop"
        => /\ Last(log) = "stop"
           /\ Range(log) \cap {"Report", "Home", "guiCommand", "Explore", "resume"} = {}

\* The step selects beacon b for a new deployment.
Selects(b) ==
    /\ call'.stage # "none"
    /\ call'.deploy = b
    /\ call.stage # "wait_for_service"
    /\ TickStep \/ MechanismStep

\* C3: a beacon's active flag never goes back to false; it goes from false to
\* true only when the deployment that selected it resumes the mission, the
\* beacon being owned; and a beacon selected for deployment is owned and
\* inactive.
C3_BeaconMonotonic ==
    [][\A b \in Beacons :
          /\ robot.beacons[b].active => robot'.beacons[b].active
          /\ ~robot.beacons[b].active /\ robot'.beacons[b].active
                => /\ call.stage = "mechanism"
                   /\ call.deploy = b
                   /\ robot.beacons[b].owner
                   /\ Added("resume")
          /\ Selects(b) => robot'.beacons[b].owner /\ ~robot'.beacons[b].active]_vars

\* The second beacon is being deployed while the first one is active.
C3_Witness ==
    /\ call.stage = "mechanism"
    /\ call.deploy = 2
    /\ robot.beacons[1].active
    /\ ~robot.beacons[2].active

\* C4: when the trigger or the mechanism call raises, the step leaves every
\* beacon as it was and numBeacons unchanged, and the selected beacon is still
\* the first available one.
C4_FailureKeepsBeacon ==
    [][Outcome("raise")
        => /\ robot'.beacons = robot.beacons
           /\ robot'.numBeacons = robot.numBeacons
           /\ FirstAvailable(robot'.beacons) = call.deploy]_vars

\* A tick returned after a failed deployment with its beacon still on board.
C4_Witness ==
    /\ call.stage = "none"
    /\ "logerr" \in Range(log)
    /\ FirstAvailable(robot.beacons) # NoBeacon
    /\ robot.numBeacons > 0

\* C5: when the mechanism does not acknowledge, the selected beacon is not
\* marked active and numBeacons is not decremented.
C5_TimeoutIsFailure ==
    [][Outcome("noack")
        => /\ ~robot'.beacons[call.deploy].active
           /\ robot'.numBeacons = robot.numBeacons]_vars

\* C6: every deployBeacon sequence that starts reaches its end.
C6_DeploymentTerminates == (call.stage # "none") ~> (call.stage = "none")

\* The step runs deployBeacon with no beacon available.
NoBeaconStep == (TickStep \/ MechanismStep) /\ Added("no beacon")

\* C7: deployBeacon with no owned and inactive beacon sets numBeacons to 0
\* (never below), forces mode to Explore and changes no beacon's active flag
\* (in a step that also ends a deployment, none but that deployment's).
C7_NoBeaconResets ==
    [][NoBeaconStep
        => /\ robot'.numBeacons = 0
           /\ robot'.mode = "Explore"
           /\ \A b \in Beacons :
                 call.stage = "none" \/ b # call.deploy
                    => robot'.beacons[b].active = robot.beacons[b].active]_vars

\* A tick accepted a Stop or Home task, then its drop policy (numBeacons > 0)
\* found no beacon to deploy, and the tick went on in Explore.
C7_Witness ==
    /\ call.stage = "none"
    /\ Len(log) > 2
    /\ log[2] = "estop_off"
    /\ log[3] = "no beacon"
    /\ robot.numBeacons = 0
    /\ robot.mode = "Explore"

\* C8: no tick runs while a callback is half applied, and a tick that goes on
\* after a deployment wait reads the launch and planner fields as they were
\* when it began.
C8_TickAtomic ==
    [][/\ TickStep /\ call'.stage = "none" => lm.at = "idle"
       /\ MechanismStep
            => /\ robot.isAerial = tickStart.isAerial
               /\ robot.isAerial => robot.launch_status = tickStart.launch_status
               /\ robot.planner_status = tickStart.planner_status]_vars

\* Active beacons within checkDist of the pose.
InRange(p) ==
    Cardinality(activeBeacons(p.beacons))
        - Cardinality(distBeacons(p.beacons, p.pose, p.checkDist))

\* C9: beaconDistCheck cancels a drop flagged upstream exactly when more than
\* one active beacon lies within checkDist of the pose.
C9_RedundancyCancellation ==
    probe.done /\ probe.dropBeacon
        => (probe.result.dropBeacon = FALSE <=> InRange(probe) > 1)

\* The turn condition of lines 258-265 on the history the tick decided on.
TurnCondition ==
    cfg.turnDetect /\ Len(robot.history) = hislen /\ turned(robot.history)

\* C10: a deployment started by the in-comm drop policy has reason "at
\* junction" whenever the robot is at a junction, "at turn" whenever it is not
\* but the turn condition holds, and "beacon distance" only when neither
\* holds.
C10_ReasonPrecedence ==
    call.stage # "none" /\ call.site = "policy"
        => /\ tickStart.atnode => call.dropReason = "at junction"
           /\ ~tickStart.atnode /\ TurnCondition => call.dropReason = "at turn"
           /\ call.dropReason = "beacon distance"
                => ~tickStart.atnode /\ ~TurnCondition

\* Junction, turn and anchor distance hold together, with an active beacon
\* out of range, and the deployment is for "at junction".
C10_Witness ==
    /\ call.stage # "none"
    /\ call.site = "policy"
    /\ tickStart.atnode
    /\ TurnCondition
    /\ distMore(call.pose.pos, anchorPos, maxAnchorDist)
    /\ distBeacons(robot.beacons, call.pose, junctionDist) # {}
    /\ call.dropReason = "at junction"

\* The pose is closer to the anchor than minAnchorDist.
TooClose(pose) == distLess(pose.pos, anchorPos, minAnchorDist)

\* C11: in a tick in which the robot is closer to the anchor than
\* minAnchorDist no deployment sequence starts, and no beacon becomes active
\* at a pose that close, whether the drop policy, the Deploy mode or the GUI
\* 'Deploy' command asks for it.
C11_MinAnchorDist ==
    [][/\ TickStep /\ TooClose(robot.pose) => call'.stage = "none"
       /\ \A b \in Beacons :
             ~robot.beacons[b].active /\ robot'.beacons[b].active
                => ~TooClose(call.pose)]_vars

\* The lateral offset y lies in the deadband around the outbound path.
InDeadband(pose) == 0 - Grid(1) < pose.pos[2] /\ pose.pos[2] < Grid(1)

\* C12: a tick in comm with at least one beacon active, the anchor closer
\* than maxAnchorDist and the lateral offset inside the deadband (-1 < y < 1)
\* deploys no beacon, whatever rule flagged a drop.
C12_Deadband ==
    [][/\ TickStep
       /\ robot.incomm
       /\ robot.numBeacons > 0
       /\ activeBeacons(robot.beacons) # {}
       /\ distLess(robot.pose.pos, anchorPos, maxAnchorDist)
       /\ InDeadband(robot.pose)
       => call'.stage = "none"]_vars

\* beaconCheck of the tick that begins ends in comm with a drop flagged.
DropFlagged ==
    LET r == updateHistory(robot)
        rule == junctionRule(r, anchorRule(r))
        chk == beaconDistCheck(r.beacons, r.pose, rule.checkDist, rule.dropBeacon)
    IN  /\ ~(robot.guiAccept /\ robot.guiTaskName = "task"
                             /\ robot.guiTaskValue = "Deploy")
        /\ robot.numBeacons > 0
        /\ robot.incomm
        /\ ~TooClose(robot.pose)
        /\ chk.dropBeacon
        /\ ~(chk.numBeacons > 0
             /\ distLess(r.pose.pos, anchorPos, maxAnchorDist)
             /\ deadband(r.pose.pos[2]))

\* C13: with delayDrop set, the first tick whose beaconCheck ends with a drop
\* flagged clears delayDrop and deploys nothing (until then the flag stays);
\* delayDrop is never set again, and every tick that ends beaconCheck with a
\* drop flagged and delayDrop clear executes deployBeacon.
C13_DelayOneShot ==
    [][/\ ~robot.delayDrop => ~robot'.delayDrop
       /\ TickStep /\ robot.delayDrop /\ DropFlagged
            => /\ ~robot'.delayDrop
               /\ call'.stage = "none"
               /\ ~Added("deploying")
               /\ ~Added("no beacon")
       /\ TickStep /\ robot.delayDrop /\ ~DropFlagged => robot'.delayDrop
       /\ TickStep /\ ~robot.delayDrop /\ DropFlagged
            => Added("deploying") \/ Added("no beacon")]_vars

\* The delay was configured and has been consumed, and a later tick's drop
\* policy is deploying.
C13_Witness ==
    /\ cfg.delayDrop
    /\ ~robot.delayDrop
    /\ call.stage = "mechanism"
    /\ call.site = "policy"

\* The tick that begins evaluates a comm loss: out of comm with beacons left,
\* reverse drop enabled and the loss counter about to exceed 5.
LossEvaluated ==
    /\ TickStep
    /\ ~robot.guiAccept
    /\ ~robot.incomm
    /\ robot.numBeacons > 0
    /\ robot.reverseDrop
    /\ robot.beaconCommLost + 1 > 5

\* A reverse drop was attempted within junctionDist of the robot.
SiteNearby ==
    \E i \in 1..Len(robot.bl_beacons) :
        getDist2(robot.pose.pos, robot.bl_beacons[i]) < Sq(Grid(junctionDist))

\* C14: a comm-loss evaluation at a place within junctionDist of a recorded
\* reverse-drop site is skipped: mode unchanged, no site appended, reverseDrop
\* disabled; elsewhere it switches mode to 'Deploy' and records the site.
\* Sites are recorded by nothing else, and reverseDrop, once disabled, is
\* enabled again only by a tick in comm, from the configured value.
C14_ReverseDropDedup ==
    [][/\ LossEvaluated /\ SiteNearby
            => /\ robot'.bl_beacons = robot.bl_beacons
               /\ robot'.mode = robot.mode
               /\ ~robot'.reverseDrop
       /\ LossEvaluated /\ ~SiteNearby
            => /\ robot'.bl_beacons = Append(robot.bl_beacons, robot.pose.pos)
               /\ robot'.mode = "Deploy"
               /\ robot'.reverseDrop
       /\ robot'.bl_beacons # robot.bl_beacons => LossEvaluated /\ ~SiteNearby
       /\ ~robot.reverseDrop /\ robot'.reverseDrop
            => TickStep /\ robot.incomm /\ cfg.reverseDropEnable]_vars

\* The second episode, 3 m from the site of the first, has been skipped.
C14_Witness ==
    /\ call.stage = "none"
    /\ ~robot.incomm
    /\ ~robot.reverseDrop
    /\ robot.bl_beacons = <<poseMid.pos>>
    /\ robot.pose = poseMidNear
    /\ robot.mode = "Explore"
    /\ \E b \in Beacons : robot.beacons[b].active

\* C15: a tick switches mode to 'Deploy' for comm loss only when the loss
\* counter exceeds 5 in it, out of comm with beacons left and reverse drop
\* enabled; every tick in comm resets the counter to 0, so that the switch
\* takes 6 consecutive ticks out of comm; the counter is 0 after each
\* evaluation; with reverse drop disabled in the configuration no tick
\* switches to 'Deploy'.
C15_CommLossHysteresis ==
    [][/\ TickStep /\ robot.mode # "Deploy" /\ robot'.mode = "Deploy"
            => /\ ~robot.incomm
               /\ robot.numBeacons > 0
               /\ robot.reverseDrop
               /\ robot.beaconCommLost + 1 > 5
       /\ TickStep /\ robot.incomm /\ robot.numBeacons > 0
            => robot'.beaconCommLost = 0
       /\ LossEvaluated => robot'.beaconCommLost = 0
       /\ TickStep /\ ~cfg.reverseDropEnable /\ robot.mode # "Deploy"
            => robot'.mode # "Deploy"]_vars

\* The history window the tick that begins decides on.
Window == updateHistory(robot).history

\* The mission has started and the history is full.
WindowFull == updateHistory(robot).startedMission /\ Len(Window) = hislen

\* The tick that begins runs stuck detection (lines 360-361).
Detects ==
    /\ WindowFull
    /\ robot.status # "Stop"
    /\ ~cfg.aerialId
    /\ robot.hasPath

\* Oldest and newest sample less than 0.5 m and less than 60 degrees apart.
Still ==
    /\ getDist2(Window[1].pos, Window[Len(Window)].pos) < 1
    /\ Abs(angleDiff(Window[1].yaw, Window[Len(Window)].yaw)) < 60

\* C16 as stated: in every tick (of a started mission, with a full history)
\* whose window is still the stuck counter grows, and in every tick whose
\* window is not, the counter is reset to 0 and the pending goals emptied.
C16_StuckEveryTick ==
    [][TickStep /\ WindowFull
        => IF Still
           THEN robot'.stuck > robot.stuck
           ELSE robot'.stuck = 0 /\ robot'.blgoals = <<>>]_vars

\* C16, amended: the same in every tick that runs stuck detection: mission
\* started, status not 'Stop', no aerial id, a path to the goal, history full.
C16_StuckMonotonic ==
    [][TickStep /\ Detects
        => IF Still
           THEN robot'.stuck > robot.stuck
           ELSE robot'.stuck = 0 /\ robot'.blgoals = <<>>]_vars

\* The counter has grown over consecutive ticks.
C16_Witness ==
    /\ call.stage = "none"
    /\ log # <<>>
    /\ robot.stuck > 2
    /\ robot.blgoals # <<>>

\* The pending goals of the tick that begins, those that survive the outlier
\* filter, and their mean.
Pending == Append(robot.blgoals, robot.goal)
Survivors == removeOutliers(Pending, averagePosition(Pending))
FilteredMean == averagePosition(Survivors)
IsOrigin(avg) == avg[1] = 0 /\ avg[2] = 0

\* The tick commits to the blacklist: it clears the pending goals although it
\* has just added one.
Commits == TickStep /\ Detects /\ Still /\ robot'.blgoals = <<>>

ClusterAndOutlier(goals, c) ==
    /\ Cardinality({i \in 1..Len(goals) : goals[i] = c}) = 3
    /\ \E i \in 1..Len(goals) : getDist2(goals[i], c) > Sq(Grid(5))

\* C18: the point committed is the mean of the pending goals without the
\* outlier: for three goals at one point c (the origin in the example, or
\* (6,0)) and one goal at (100,100), the blacklist receives exactly the
\* point c and the pending goals are cleared.
C18_OutlierRejection ==
    probe.done
        => \A c \in OutlierGoals :
              ClusterAndOutlier(probe.blgoals, c)
                 => /\ probe.result.blgoals = <<>>
                    /\ Cardinality(probe.result.blacklist) = 1
                    /\ \A avg \in probe.result.blacklist :
                          avg[1] = c[1] * avg[3] /\ avg[2] = c[2] * avg[3]

\* The mode a tick arbitrates with: the GUI task it accepted decides it
\* (lines 405-418), else the mode the last tick left.
ModeAfterGui ==
    LET v == robot.guiTaskValue
    IN  IF robot.guiAccept /\ robot.guiTaskName = "task"
        THEN IF v \in {"Explore", "Start", "Deploy"} THEN "Explore" ELSE v
        ELSE robot.mode

\* The step runs the mode arbitration in mode Goal: in the tick's first step,
\* or after the drop policy's deployment returned (a deployBeacon that finds
\* no beacon sets mode Explore before the arbitration, line 200).
GoalArbitration ==
    /\ Added("arbitrate")
    /\ ~Added("no beacon")
    /\ \/ TickStep /\ ModeAfterGui = "Goal"
       \/ MechanismStep /\ call.site = "policy" /\ robot.mode = "Goal"

\* What the arbitration of the step selects: the events after "arbitrate".
Arbitrated(ev) ==
    \E i, j \in 1..Len(log') : i < j /\ log'[i] = "arbitrate" /\ log'[j] = ev

AtGoalPoint == distLess(robot.pose.pos, robot.guiGoalPoint, 1)

\* C19: a tick that reaches mode arbitration in mode Goal leaves mode Explore
\* and runs exploration goal selection if and only if the robot is within
\* 1.0 m of the GUI goal point; otherwise the mode stays Goal and the
\* commanded goal point is selected.
C19_GoalModeExit ==
    [][GoalArbitration
        => IF AtGoalPoint
           THEN /\ robot'.mode = "Explore"
                /\ Arbitrated("Explore")
                /\ ~Arbitrated("guiCommand")
           ELSE /\ robot'.mode = "Goal"
                /\ Arbitrated("guiCommand")
                /\ robot'.status = "guiCommand"
                /\ ~Arbitrated("Explore")]_vars

\* A tick has arbitrated in mode Goal at exactly 1.0 m of the goal point and
\* selected the commanded goal point.
C19_Witness ==
    /\ robot.mode = "Goal"
    /\ robot.status = "guiCommand"
    /\ "arbitrate" \in Range(log)
    /\ robot.pose = poseGoalEdge
    /\ robot.guiGoalPoint = poseFar.pos

\* A whole tick of an aerial robot, with no launch message half handled.
AerialTick ==
    TickStep /\ call'.stage = "none" /\ robot.isAerial /\ lm.at = "idle"

\* C20: after every tick of an aerial robot that runs while it is not
\* airborne the reset record has ignore = true, and after every tick that
\* runs while it is airborne ignore = false; the reset record is rewritten
\* only in a tick where the ignore flag flips.
C20_AerialMapGating ==
    [][/\ AerialTick => robot'.resetIgnore = ~robot.launch_status
       /\ TickStep /\ Added("reset") => robot'.resetIgnore # robot.resetIgnore]_vars

\* The step attempts the 'Regain comms' deployment: its arbitration calls
\* deployBeacon, which blocks in the mechanism or finds no beacon.
RegainAttempt ==
    /\ Added("arbitrate")
    /\ \/ call'.stage # "none" /\ call'.site = "regain"
       \/ Arbitrated("no beacon")

\* The step arbitrates in mode Deploy without comm to the base (the branch
\* of lines 502-505 leaves the mode as it is).
DeployArbitrationNoComm ==
    /\ Added("arbitrate")
    /\ ~robot.incomm
    /\ robot'.mode = "Deploy"

\* The step arbitrates in mode Deploy with comm and the regain counter
\* above 5: the drop is evaluated (deployed, or cancelled).
EvaluatesDrop ==
    /\ Added("arbitrate")
    /\ robot.incomm
    /\ robot.regainBase > RegainTicks
    /\ \/ TickStep /\ ModeAfterGui = "Deploy" /\ ~Added("no beacon")
       \/ MechanismStep /\ call.site = "policy" /\ robot.mode = "Deploy"

\* C21: in mode Deploy the 'Regain comms' deployment is attempted only in a
\* tick that follows more than 5 consecutive arbitration ticks with comm;
\* an arbitration tick without comm resets the regain counter to 0 and
\* selects Home; the tick that evaluates the drop ends in mode Explore with
\* the regain counter at 0.
C21_RegainHysteresis ==
    [][/\ RegainAttempt => probe.commTicks > RegainTicks
       /\ DeployArbitrationNoComm
             => robot'.regainBase = 0 /\ Arbitrated("Home")
       /\ (EvaluatesDrop /\ call'.stage = "none")
             \/ (MechanismStep /\ call.site = "regain")
             => robot'.mode = "Explore" /\ robot'.regainBase = 0]_vars

\* The beacons this robot owns and has not deployed.
Available == {b \in Beacons : robot.beacons[b].owner /\ ~robot.beacons[b].active}

\* C22: a robot that starts with numBeacons equal to the number of beacons
\* it owns and has not deployed keeps that equality through ticks, GUI
\* commands, successful and failed deployments, and the count is never
\* negative.
C22_InventoryConsistent ==
    /\ robot.numBeacons = Cardinality(Available)
    /\ robot.numBeacons >= 0

\* One beacon has been deployed and booked, and the deployment of the next
\* has just failed.
C22_Witness ==
    /\ call.stage = "none"
    /\ "logerr" \in Range(log)
    /\ Cardinality(activeBeacons(robot.beacons)) = 1
    /\ robot.numBeacons = MaxBeacons - 1

\* The comm-loss branch of the drop policy sets mode Deploy in this tick
\* (lines 286-300; a GUI 'Deploy' tick skips the policy).
PolicyEntersDeploy ==
    /\ ~(robot.guiAccept /\ robot.guiTaskName = "task" /\ robot.guiTaskValue = "Deploy")
    /\ ~robot.incomm
    /\ robot.numBeacons > 0
    /\ robot.reverseDrop
    /\ robot.beaconCommLost + 1 > 5
    /\ ~SiteNearby

\* The mode a step brings to its report check: in the tick's first step the
\* accepted GUI task's, unless the drop policy acted on the mode; after a
\* deployment, the mode stored when the tick began (a GUI 'Deploy' sets
\* Explore once its deployment returned).
ModeAtReportCheck ==
    IF call.stage = "none"
    THEN IF PolicyEntersDeploy THEN "Deploy"
         ELSE IF Added("no beacon") THEN "Explore"
         ELSE ModeAfterGui
    ELSE IF call.site = "gui" THEN "Explore" ELSE robot.mode

\* The step ends a tick in Report.
ReportTick == (TickStep \/ MechanismStep) /\ Added("Report")

\* The step reaches the report check with the report of an earlier tick
\* that the base has now seen.
ReportClears ==
    /\ ReachesReportCheck
    /\ ~(TickStep /\ call'.stage # "none")
    /\ robot.report
    /\ cfg.solo \/ robot.baseLastArtifact = robot.lastArtifact

\* What the arbitration selects in each commanded mode.
SelectedFor(mode) ==
    IF mode = "Home" THEN Arbitrated("Home")
    ELSE IF mode = "Stop" THEN Arbitrated("stop")
    ELSE IF mode = "Goal"
         THEN IF AtGoalPoint THEN Arbitrated("Explore") ELSE Arbitrated("guiCommand")
    ELSE IF mode = "Explore" THEN Arbitrated("Explore")
    ELSE TRUE

\* C23: a tick that ends in Report leaves in mode the GUI mode task it
\* accepted, and otherwise the mode it began with, unless the drop policy
\* acted on the mode; the first tick in which the report clears goes on to
\* the mode arbitration in that same tick and arbitrates the stored mode.
C23_ModeSurvivesReport ==
    [][/\ ReportTick => robot'.mode = ModeAtReportCheck
       /\ ReportClears
             => /\ ~Added("Report")
                /\ Added("arbitrate")
                /\ SelectedFor(ModeAtReportCheck)]_vars

\* A tick has accepted the GUI task Home and ended in Report.
C23_Witness ==
    /\ robot.mode = "Home"
    /\ "estop_off" \in Range(log)
    /\ Last(log) = "Report"
    /\ robot.report

====
